---- MODULE Spec2Model ----
(***************************************************************************)
(* Model of src/compositor/cogl-utils.c (muffin): the solid-colour texture *)
(* helper, the shared material template, and the three texture-creation    *)
(* wrappers with their two process-wide caches (GPU capability, screen     *)
(* size).  The collaborators (Clutter backend, GDK screen, Cogl            *)
(* constructors) are modelled as an environment whose answers may change   *)
(* between calls and whose constructors may fail; the ghost variables      *)
(* featureQueryLog, screenQueryLog and last are the call instrumentation a *)
(* test double would record.                                               *)
(***************************************************************************)
EXTENDS Integers, Sequences, FiniteSets, TLC

\* ---------------------------------------------------------------- bounds
MaxScreenQueries == 2   \* cap on the recorded screen queries
MaxMaterials == 3       \* cap on meta_create_texture_material calls
MaxTextures == 2        \* cap on the colour textures the caller makes

\* ------------------------------------------------------- program constants
COGL_INVALID_HANDLE == 0
NULL == "NULL"
NA == "n/a"

Min(a, b) == IF a < b THEN a ELSE b

\* what the default screen can report: no screen (0 x 0), or a real size
Displays ==
  {<<0, 0>>, <<1, 2>>, <<1920, 1080>>}

\* (width, height) a caller can request
Requests ==
  {<<10000, 10000>>, <<800, 600>>, <<-1, -1>>, <<2, 4>>, <<3, 3>>}

\* <<flags, internal_format>> a caller can pass
CallArgs ==
  {<<"COGL_TEXTURE_NONE", "COGL_PIXEL_FORMAT_ANY">>,
   <<"COGL_TEXTURE_NO_SLICING", "COGL_PIXEL_FORMAT_RGBA_8888_PRE">>}

TextureFlags == {"COGL_TEXTURE_NONE", "COGL_TEXTURE_NO_SLICING"}

\* guint8 channels: the largest byte
MaxByte == 255

\* colours the compositor's callers use for their own textures
CallerColors == {<<255, 0, 0, 255>>, <<0, 0, 0, 128>>}

\* (red, green, blue, alpha) inputs: every (channel, alpha) pair in each of
\* the three colour positions
ColorInput(position, c, a) ==
  CASE position = 1 -> <<c, 0, 255, a>>
    [] position = 2 -> <<255, c, 0, a>>
    [] position = 3 -> <<0, 255, c, a>>

\* the pixel format of the caller's data
DataFormat == "COGL_PIXEL_FORMAT_BGRA_8888_PRE"

VARIABLES
  \* environment (collaborators)
  gpu_npot,          \* what cogl_has_feature(TEXTURE_NPOT) would answer now
  display,           \* <<width, height>> the default screen reports now
  \* statics of cogl-utils.c
  cogl_context,
  supports_npot,
  screen_width,
  screen_height,
  texture_material_template,
  \* Cogl object heap (handles are 1, 2, ...; 0 is COGL_INVALID_HANDLE)
  objects,           \* handle -> [type, refs, layer0, parent, pixel]
  \* instrumentation
  featureQueryLog,   \* answers given by cogl_has_feature, in order
  screenQueryLog,    \* <<w, h>> answers given by the screen, in order
  last,              \* record of the last wrapper call, with what the
                     \* backend and the screen would have answered then
  templateBuilds,    \* one [template, dummy] per cogl_material_new call
  returned,          \* one [src, ret] per meta_create_texture_material call
  lastColor          \* record of the last meta_create_color_texture_4ub call

envVars == <<gpu_npot, display>>
capVars == <<cogl_context, supports_npot>>
sizeVars == <<screen_width, screen_height>>
wrapVars == <<featureQueryLog, screenQueryLog, last>>
heapVars == <<objects, texture_material_template>>
matVars == <<templateBuilds, returned>>
vars == <<envVars, capVars, sizeVars, wrapVars, heapVars, matVars, lastColor>>

NoCall ==
  [kind |-> "none", req |-> <<0, 0>>, flags |-> NA, format |-> NA,
   internal_format |-> NA, trace |-> <<>>, npot |-> FALSE,
   ctor |-> NA, ctx |-> NA, dims |-> <<0, 0>>, ctorFlags |-> NA, ctorFormat |-> NA,
   ctorInternal |-> NA, ctorRet |-> NULL, error |-> FALSE, ret |-> NULL,
   backend_npot |-> FALSE, screen |-> <<0, 0>>]

NoColor ==
  [called |-> FALSE, rgba |-> <<0, 0, 0, 0>>, pixel |-> <<0, 0, 0, 0>>,
   width |-> 0, height |-> 0, flags |-> NA, format |-> NA,
   internal_format |-> NA, rowstride |-> 0, ret |-> COGL_INVALID_HANDLE]

Init ==
  /\ gpu_npot \in BOOLEAN
  /\ display \in Displays
  /\ cogl_context = NULL
  /\ supports_npot = FALSE
  /\ screen_width = 0
  /\ screen_height = 0
  /\ texture_material_template = COGL_INVALID_HANDLE
  /\ objects = <<>>
  /\ featureQueryLog = <<>>
  /\ screenQueryLog = <<>>
  /\ last = NoCall
  /\ templateBuilds = <<>>
  /\ returned = <<>>
  /\ lastColor = NoColor

\* ------------------------------------------------------------ environment
\* the driver / backend starts answering the NPOT query differently
GpuChange ==
  /\ gpu_npot' = ~gpu_npot
  /\ UNCHANGED <<display, capVars, sizeVars, wrapVars, heapVars, matVars, lastColor>>

\* the display is reconfigured (or appears / disappears)
DisplayChange ==
  /\ display' \in Displays \ {display}
  /\ UNCHANGED <<gpu_npot, capVars, sizeVars, wrapVars, heapVars, matVars, lastColor>>

\* ------------------------------------------------- hardware_supports_npot_sizes
\* faulty variant: the early return on a resolved context is missing, so
\* every call asks the backend again
hardware_supports_npot_sizes_requery ==
  [cogl_context |-> "ctx", supports_npot |-> gpu_npot,
   result |-> gpu_npot, answers |-> <<gpu_npot>>,
   trace |-> <<"hardware_supports_npot_sizes", "clutter_get_default_backend",
               "clutter_backend_get_cogl_context", "cogl_has_feature">>]

\* faulty variant: the cache test reads supports_npot instead of cogl_context,
\* so a cached "not supported" is taken for "not asked yet"
hardware_supports_npot_sizes_flagtest ==
  IF supports_npot
    THEN [cogl_context |-> cogl_context, supports_npot |-> supports_npot,
          result |-> supports_npot, answers |-> <<>>,
          trace |-> <<"hardware_supports_npot_sizes">>]
    ELSE hardware_supports_npot_sizes_requery

\* result of one call, given the statics: the new statics, the value
\* returned, and the collaborator calls it made
hardware_supports_npot_sizes ==
  IF cogl_context # NULL
    THEN [cogl_context |-> cogl_context, supports_npot |-> supports_npot,
          result |-> supports_npot, answers |-> <<>>,
          trace |-> <<"hardware_supports_npot_sizes">>]
    ELSE [cogl_context |-> "ctx", supports_npot |-> gpu_npot,
          result |-> gpu_npot, answers |-> <<gpu_npot>>,
          trace |-> <<"hardware_supports_npot_sizes",
                      "clutter_get_default_backend",
                      "clutter_backend_get_cogl_context",
                      "cogl_has_feature">>]

\* ------------------------------------------------------------- clamp_sizes
ScreenQueryTrace ==
  <<"clamp_sizes", "gdk_screen_get_default", "gdk_screen_get_width",
    "gdk_screen_get_height">>

\* faulty variant: the screen is asked on every call
clamp_sizes_always_query(width, height) ==
  [screen_width |-> display[1], screen_height |-> display[2],
   width |-> Min(width, display[1] * 2), height |-> Min(height, display[2] * 2),
   answers |-> <<display>>, trace |-> ScreenQueryTrace]

\* faulty variant: the limit is the screen size, not twice the screen size
clamp_sizes_no_double(width, height) ==
  LET query == screen_width = 0
      sw == IF query THEN display[1] ELSE screen_width
      sh == IF query THEN display[2] ELSE screen_height
  IN [screen_width |-> sw, screen_height |-> sh,
      width |-> Min(width, sw), height |-> Min(height, sh),
      answers |-> IF query THEN <<display>> ELSE <<>>,
      trace |-> IF query THEN ScreenQueryTrace ELSE <<"clamp_sizes">>]

\* faulty variant: the request is clamped before the cache is filled, so the
\* call that queries the screen still clamps against the old cached size
clamp_sizes_stale(width, height) ==
  LET query == screen_width = 0
  IN [screen_width |-> IF query THEN display[1] ELSE screen_width,
      screen_height |-> IF query THEN display[2] ELSE screen_height,
      width |-> Min(width, screen_width * 2),
      height |-> Min(height, screen_height * 2),
      answers |-> IF query THEN <<display>> ELSE <<>>,
      trace |-> IF query THEN ScreenQueryTrace ELSE <<"clamp_sizes">>]

clamp_sizes(width, height) ==
  LET query == screen_width = 0
      sw == IF query THEN display[1] ELSE screen_width
      sh == IF query THEN display[2] ELSE screen_height
  IN [screen_width |-> sw, screen_height |-> sh,
      width |-> Min(width, sw * 2), height |-> Min(height, sh * 2),
      answers |-> IF query THEN <<display>> ELSE <<>>,
      trace |-> IF query THEN ScreenQueryTrace ELSE <<"clamp_sizes">>]

\* --------------------------------------------------- Cogl texture constructors
\* A constructor either succeeds (a texture, no error) or fails (NULL, and an
\* error object when the caller passed an error out-parameter).
Construct(ok, hasErrorParam) ==
  [ret |-> IF ok THEN "texture" ELSE NULL, error |-> hasErrorParam /\ ~ok]

\* faulty variant: the error is logged but never freed
on_error_leak(error) ==
  IF error THEN <<"meta_verbose">> ELSE <<>>

\* the log-and-free block that follows a constructor taking &error
on_error(error) ==
  IF error THEN <<"meta_verbose", "cogl_error_free">> ELSE <<>>

\* ------------------------------------------------- the three dispatch wrappers
\* The record of one wrapper call: c is what its clamp_sizes call did (NoClamp
\* for the wrapper that has none), h what hardware_supports_npot_sizes did,
\* new / old the outcome of the 2D / legacy constructor, should it be called.
\* logNew / logOld tell whether the wrapper passes that constructor &error.
Dispatch(kind, req, flags, format, internal_format, c, h, ok, ctorNew, logNew, ctorOld, logOld) ==
  LET new == Construct(ok, logNew)
      old == Construct(ok, logOld)
      common == [kind |-> kind, req |-> req, flags |-> flags, format |-> format,
                 internal_format |-> internal_format, npot |-> h.result,
                 dims |-> <<c.width, c.height>>, ctorFormat |-> format]
  IN [statics |-> [cogl_context |-> h.cogl_context, supports_npot |-> h.supports_npot,
                   screen_width |-> c.screen_width, screen_height |-> c.screen_height],
      screenAnswers |-> c.answers,
      featureAnswers |-> h.answers,
      call |-> IF h.result
                 THEN common @@
                      [trace |-> c.trace \o h.trace \o <<ctorNew>>
                                 \o on_error(new.error),
                       ctor |-> ctorNew, ctx |-> h.cogl_context,
                       ctorFlags |-> NA, ctorInternal |-> NA,
                       ctorRet |-> new.ret, error |-> new.error, ret |-> new.ret]
                 ELSE common @@
                      [trace |-> c.trace \o h.trace \o <<ctorOld>>
                                 \o on_error(old.error),
                       ctor |-> ctorOld, ctx |-> NA,
                       ctorFlags |-> flags, ctorInternal |-> internal_format,
                       ctorRet |-> old.ret, error |-> old.error, ret |-> old.ret]]

\* a wrapper without a clamp_sizes call: the screen cache is not touched
NoClamp ==
  [screen_width |-> screen_width, screen_height |-> screen_height,
   width |-> 0, height |-> 0, answers |-> <<>>, trace |-> <<>>]

\* clamp, capability, then cogl_texture_2d_new_from_data (with &error) or
\* cogl_texture_new_from_data (no error parameter)
meta_cogl_texture_new_from_data_wrapper(req, flags, format, internal_format, ok) ==
  Dispatch("data", req, flags, format, internal_format,
           clamp_sizes(req[1], req[2]), hardware_supports_npot_sizes, ok,
           "cogl_texture_2d_new_from_data", TRUE,
           "cogl_texture_new_from_data", FALSE)

\* faulty variant: the legacy file constructor is not given &error
meta_cogl_texture_new_from_file_wrapper_silent(flags, internal_format, ok) ==
  Dispatch("file", <<0, 0>>, flags, NA, internal_format,
           NoClamp, hardware_supports_npot_sizes, ok,
           "cogl_texture_2d_new_from_file", TRUE,
           "cogl_texture_new_from_file", FALSE)

\* faulty variant: the file wrapper clamps like its two siblings
meta_cogl_texture_new_from_file_wrapper_clamping(flags, internal_format, ok) ==
  Dispatch("file", <<0, 0>>, flags, NA, internal_format,
           clamp_sizes(0, 0), hardware_supports_npot_sizes, ok,
           "cogl_texture_2d_new_from_file", TRUE,
           "cogl_texture_new_from_file", TRUE)

\* capability, then cogl_texture_2d_new_from_file or cogl_texture_new_from_file,
\* both with &error, then one shared log-and-free block
meta_cogl_texture_new_from_file_wrapper(flags, internal_format, ok) ==
  Dispatch("file", <<0, 0>>, flags, NA, internal_format,
           NoClamp, hardware_supports_npot_sizes, ok,
           "cogl_texture_2d_new_from_file", TRUE,
           "cogl_texture_new_from_file", TRUE)

\* clamp, capability, then cogl_texture_2d_new_with_size or
\* cogl_texture_new_with_size, neither with an error parameter
meta_cogl_texture_new_with_size_wrapper(req, flags, internal_format, ok) ==
  Dispatch("size", req, flags, NA, internal_format,
           clamp_sizes(req[1], req[2]), hardware_supports_npot_sizes, ok,
           "cogl_texture_2d_new_with_size", FALSE,
           "cogl_texture_new_with_size", FALSE)

\* one wrapper call r takes effect: the statics, the logs and the call record
Apply(r) ==
  /\ Len(screenQueryLog) + Len(r.screenAnswers) <= MaxScreenQueries
  /\ cogl_context' = r.statics.cogl_context
  /\ supports_npot' = r.statics.supports_npot
  /\ screen_width' = r.statics.screen_width
  /\ screen_height' = r.statics.screen_height
  /\ featureQueryLog' = featureQueryLog \o r.featureAnswers
  /\ screenQueryLog' = screenQueryLog \o r.screenAnswers
  /\ last' = r.call @@ [backend_npot |-> gpu_npot, screen |-> display]
  /\ UNCHANGED <<envVars, heapVars, matVars, lastColor>>

FromData ==
  \E req \in Requests, args \in CallArgs, ok \in BOOLEAN :
    Apply(meta_cogl_texture_new_from_data_wrapper(req, args[1], DataFormat,
                                                  args[2], ok))

FromFile ==
  \E args \in CallArgs, ok \in BOOLEAN :
    Apply(meta_cogl_texture_new_from_file_wrapper(args[1], args[2], ok))

WithSize ==
  \E req \in Requests, args \in CallArgs, ok \in BOOLEAN :
    Apply(meta_cogl_texture_new_with_size_wrapper(req, args[1], args[2], ok))

\* ------------------------------------------------------------- Cogl objects
\* cogl_color_premultiply on a 4-byte CoglColor: each colour byte is scaled
\* by alpha / 255, rounded to nearest; the alpha byte is kept
cogl_color_premultiply(color) ==
  <<(color[1] * color[4] + 128) \div MaxByte,
    (color[2] * color[4] + 128) \div MaxByte,
    (color[3] * color[4] + 128) \div MaxByte,
    color[4]>>

TextureObject(pixel, width, height) ==
  [type |-> "texture", refs |-> 1, layer0 |-> COGL_INVALID_HANDLE,
   parent |-> COGL_INVALID_HANDLE, pixel |-> pixel, width |-> width,
   height |-> height]

\* cogl_material_new: an empty material owned by the caller
MaterialObject(layer0, parent) ==
  [type |-> "material", refs |-> 1, layer0 |-> layer0, parent |-> parent,
   pixel |-> <<>>, width |-> 0, height |-> 0]

\* cogl_material_set_layer: the material's layer 0 becomes tex, which it refs
cogl_material_set_layer(heap, material, tex) ==
  [heap EXCEPT ![material].layer0 = tex, ![tex].refs = @ + 1]

cogl_handle_unref(heap, h) ==
  [heap EXCEPT ![h].refs = @ - 1]

\* cogl_material_copy: a child that starts with the parent's layers and
\* keeps the parent alive
cogl_material_copy(heap, material) ==
  Append([heap EXCEPT ![material].refs = @ + 1],
         MaterialObject(heap[material].layer0, material))

\* ------------------------------------------------ meta_create_color_texture_4ub
\* faulty variant: the bytes are packed blue, green, red, alpha
meta_create_color_texture_4ub_bgra(red, green, blue, alpha, flags) ==
  LET color == cogl_color_premultiply(<<red, green, blue, alpha>>)
      pixel == <<color[3], color[2], color[1], color[4]>>
  IN [called |-> TRUE, rgba |-> <<red, green, blue, alpha>>, pixel |-> pixel,
      width |-> 1, height |-> 1, flags |-> flags,
      format |-> "COGL_PIXEL_FORMAT_RGBA_8888_PRE",
      internal_format |-> "COGL_PIXEL_FORMAT_ANY", rowstride |-> 4]

\* the cogl_texture_new_from_data request the function makes
meta_create_color_texture_4ub(red, green, blue, alpha, flags) ==
  LET color == cogl_color_premultiply(<<red, green, blue, alpha>>)
      pixel == <<color[1], color[2], color[3], color[4]>>
  IN [called |-> TRUE, rgba |-> <<red, green, blue, alpha>>, pixel |-> pixel,
      width |-> 1, height |-> 1, flags |-> flags,
      format |-> "COGL_PIXEL_FORMAT_RGBA_8888_PRE",
      internal_format |-> "COGL_PIXEL_FORMAT_ANY", rowstride |-> 4]

\* the heap after the texture of request r is created; its handle is Len of it
NewTexture(heap, r) ==
  Append(heap, TextureObject(r.pixel, r.width, r.height))

\* the caller makes a colour texture it keeps (to use as a src_texture)
CallerTexture ==
  \E rgba \in CallerColors, flags \in TextureFlags :
    LET r == meta_create_color_texture_4ub(rgba[1], rgba[2], rgba[3], rgba[4], flags)
        heap == NewTexture(objects, r)
    IN /\ Cardinality({h \in DOMAIN objects : objects[h].type = "texture"})
            < MaxTextures + Len(templateBuilds)
       /\ objects' = heap
       /\ lastColor' = r @@ [ret |-> Len(heap)]
       /\ UNCHANGED <<envVars, capVars, sizeVars, wrapVars, matVars,
                      texture_material_template>>

\* one call of the function on an input drawn from ColorInputs
ColorCall ==
  /\ ~lastColor.called
  /\ \E position \in 1..3, c \in 0..MaxByte, a \in 0..MaxByte,
        flags \in TextureFlags :
    LET rgba == ColorInput(position, c, a)
        r == meta_create_color_texture_4ub(rgba[1], rgba[2], rgba[3], rgba[4], flags)
        heap == NewTexture(objects, r)
    IN /\ objects' = heap
       /\ lastColor' = r @@ [ret |-> Len(heap)]
       /\ UNCHANGED <<envVars, capVars, sizeVars, wrapVars, matVars,
                      texture_material_template>>

\* ------------------------------------------------- meta_create_texture_material
\* faulty variant: the supplied texture is set on the template, not on the copy
meta_create_texture_material_on_template(src_texture) ==
  LET build == texture_material_template = COGL_INVALID_HANDLE
      heap1 == NewTexture(objects,
                 meta_create_color_texture_4ub(255, 255, 255, 255,
                                               "COGL_TEXTURE_NONE"))
      dummy_texture == Len(heap1)
      heap2 == Append(heap1, MaterialObject(COGL_INVALID_HANDLE,
                                            COGL_INVALID_HANDLE))
      template == IF build THEN Len(heap2) ELSE texture_material_template
      heap3 == cogl_material_set_layer(heap2, template, dummy_texture)
      heap4 == cogl_handle_unref(heap3, dummy_texture)
      heap5 == cogl_material_copy(IF build THEN heap4 ELSE objects, template)
      material == Len(heap5)
      heap6 == IF src_texture # COGL_INVALID_HANDLE
                 THEN cogl_material_set_layer(heap5, template, src_texture)
                 ELSE heap5
  IN [objects |-> heap6, template |-> template, material |-> material,
      builds |-> IF build
                   THEN <<[template |-> template, dummy |-> dummy_texture]>>
                   ELSE <<>>]

\* the heap, the template and the returned material of one call
meta_create_texture_material(src_texture) ==
  LET build == texture_material_template = COGL_INVALID_HANDLE
      heap1 == NewTexture(objects,
                 meta_create_color_texture_4ub(255, 255, 255, 255,
                                               "COGL_TEXTURE_NONE"))
      dummy_texture == Len(heap1)
      heap2 == Append(heap1, MaterialObject(COGL_INVALID_HANDLE,
                                            COGL_INVALID_HANDLE))
      template == IF build THEN Len(heap2) ELSE texture_material_template
      heap3 == cogl_material_set_layer(heap2, template, dummy_texture)
      heap4 == cogl_handle_unref(heap3, dummy_texture)
      heap5 == cogl_material_copy(IF build THEN heap4 ELSE objects, template)
      material == Len(heap5)
      heap6 == IF src_texture # COGL_INVALID_HANDLE
                 THEN cogl_material_set_layer(heap5, material, src_texture)
                 ELSE heap5
  IN [objects |-> heap6, template |-> template, material |-> material,
      builds |-> IF build
                   THEN <<[template |-> template, dummy |-> dummy_texture]>>
                   ELSE <<>>]

\* the textures the caller holds: every texture but the template's dummy
CallerTextures ==
  {h \in DOMAIN objects :
     /\ objects[h].type = "texture"
     /\ \A i \in 1..Len(templateBuilds) : templateBuilds[i].dummy # h}

CreateTextureMaterial ==
  \E src_texture \in CallerTextures \cup {COGL_INVALID_HANDLE} :
    LET r == meta_create_texture_material(src_texture)
    IN /\ Len(returned) < MaxMaterials
       /\ objects' = r.objects
       /\ texture_material_template' = r.template
       /\ templateBuilds' = templateBuilds \o r.builds
       /\ returned' = Append(returned, [src |-> src_texture, ret |-> r.material])
       /\ UNCHANGED <<envVars, capVars, sizeVars, wrapVars, lastColor>>

Next ==
  \/ GpuChange
  \/ DisplayChange
  \/ FromData
  \/ FromFile
  \/ WithSize

Spec == Init /\ [][Next]_vars

\* the material helper and the caller's textures
NextMaterial ==
  \/ CallerTexture
  \/ CreateTextureMaterial

SpecMaterial == Init /\ [][NextMaterial]_vars

\* the colour-texture helper applied to one input
NextColor ==
  \/ ColorCall

\* the helper reads neither the GPU nor the display: one environment is enough
InitColor ==
  /\ Init
  /\ gpu_npot
  /\ display = <<1920, 1080>>

SpecColor == InitColor /\ [][NextColor]_vars
\* ================================================================= properties
Ctors2D ==
  {"cogl_texture_2d_new_from_data", "cogl_texture_2d_new_from_file",
   "cogl_texture_2d_new_with_size"}

CtorsLegacy ==
  {"cogl_texture_new_from_data", "cogl_texture_new_from_file",
   "cogl_texture_new_with_size"}

ScreenQueries == {"gdk_screen_get_default", "gdk_screen_get_width",
                  "gdk_screen_get_height"}

CapabilityQueries == {"clutter_get_default_backend",
                      "clutter_backend_get_cogl_context", "cogl_has_feature"}

\* how many entries of seq are in S, and where the first one is (0: nowhere)
Count(seq, S) == Cardinality({i \in 1..Len(seq) : seq[i] \in S})

Pos(seq, S) ==
  IF Count(seq, S) = 0 THEN 0
  ELSE CHOOSE i \in 1..Len(seq) :
         seq[i] \in S /\ \A j \in 1..(i - 1) : seq[j] \notin S

Sized == last.kind \in {"data", "size"}
Called == last.kind # "none"

\* C1: sticky capability dispatch -- every wrapper call takes the branch of
\* the answer the first capability query recorded: the 2D constructor if it
\* was "supported", the legacy constructor if it was "not supported",
\* whatever the backend would answer at the time of the call.
C1_StickyDispatch ==
  Called =>
    /\ Len(featureQueryLog) >= 1
    /\ featureQueryLog[1] => last.ctor \in Ctors2D
    /\ ~featureQueryLog[1] => last.ctor \in CtorsLegacy

\* a later call took the 2D branch although the backend then said "no"
C1_Witness ==
  /\ Called
  /\ Count(last.trace, CapabilityQueries) = 0
  /\ last.ctor \in Ctors2D
  /\ ~last.backend_npot

\* C2: capability query idempotence -- the context accessor and the NPOT
\* feature query are invoked by the first call only, and every call returns
\* the boolean the first call cached.
C2_CapabilityQueriedOnce ==
  /\ Len(featureQueryLog) <= 1
  /\ (cogl_context # NULL) <=> (Len(featureQueryLog) = 1)
  /\ Called =>
       /\ Len(featureQueryLog) = 1
       /\ last.npot = featureQueryLog[1]
       /\ supports_npot = featureQueryLog[1]
       /\ Count(last.trace, {"clutter_backend_get_cogl_context"}) <= 1
       /\ Count(last.trace, {"cogl_has_feature"}) <= 1

\* a later call returned the cached "not supported" without asking, while
\* the backend would have said "supported"
C2_Witness ==
  /\ Called
  /\ Count(last.trace, CapabilityQueries) = 0
  /\ ~last.npot
  /\ last.backend_npot

\* C3 as stated: the screen is queried by the first clamp_sizes call only, and
\* every call clamps against what that first query recorded.
C3_Original ==
  /\ Len(screenQueryLog) <= 1
  /\ Sized =>
       /\ Len(screenQueryLog) = 1
       /\ last.dims = <<Min(last.req[1], 2 * screenQueryLog[1][1]),
                        Min(last.req[2], 2 * screenQueryLog[1][2])>>

\* C3 amended: the screen is queried by every clamp_sizes call made while the
\* cached width is 0, so every query but the last one answered width 0; the
\* cache holds the last answer, a call that does not query has a non-zero
\* cached width, and every call clamps against the cached size.
C3_ScreenQueriedUntilNonZero ==
  LET n == Len(screenQueryLog)
  IN /\ \A i \in 1..(n - 1) : screenQueryLog[i][1] = 0
     /\ <<screen_width, screen_height>> =
          IF n = 0 THEN <<0, 0>> ELSE screenQueryLog[n]
     /\ Sized =>
          /\ n >= 1
          /\ Count(last.trace, ScreenQueries) = 0 => screen_width # 0
          /\ last.dims = <<Min(last.req[1], 2 * screenQueryLog[n][1]),
                           Min(last.req[2], 2 * screenQueryLog[n][2])>>

\* a call clamped against the cached size without asking, after an earlier
\* re-query, while the display reported another size
C3_Witness ==
  /\ Sized
  /\ Count(last.trace, ScreenQueries) = 0
  /\ Len(screenQueryLog) = 2
  /\ last.screen # <<screen_width, screen_height>>
  /\ last.dims # last.req

\* C4: clamp result -- the dimensions handed to the constructor by the
\* from-data and with-size wrappers are (min(width, 2W), min(height, 2H)) for
\* the cached screen size (W, H); on 1920 x 1080, (10000, 10000) becomes
\* (3840, 2160) and (800, 600) is unchanged.
C4_ClampResult ==
  Sized =>
    /\ last.dims[1] = IF last.req[1] <= 2 * screen_width
                        THEN last.req[1] ELSE 2 * screen_width
    /\ last.dims[2] = IF last.req[2] <= 2 * screen_height
                        THEN last.req[2] ELSE 2 * screen_height
    /\ last.dims[1] <= 2 * screen_width
    /\ last.dims[2] <= 2 * screen_height
    /\ (<<screen_width, screen_height>> = <<1920, 1080>>
        /\ last.req = <<10000, 10000>>) => last.dims = <<3840, 2160>>
    /\ (<<screen_width, screen_height>> = <<1920, 1080>>
        /\ last.req = <<800, 600>>) => last.dims = <<800, 600>>

C4_Witness ==
  /\ Sized
  /\ <<screen_width, screen_height>> = <<1920, 1080>>
  /\ last.req = <<10000, 10000>>
  /\ last.dims = <<3840, 2160>>

\* C5: dispatch order -- from-data and with-size clamp first, then query the
\* capability, then call exactly one constructor with the clamped dimensions
\* (the 2D one with the cached context if NPOT is supported, else the legacy
\* one with the caller's flags and internal format); from-file never clamps
\* and never queries the screen.
C5_DispatchOrder ==
  LET t == last.trace
      clampAt == Pos(t, {"clamp_sizes"})
      capAt == Pos(t, {"hardware_supports_npot_sizes"})
      ctorAt == Pos(t, Ctors2D \cup CtorsLegacy)
  IN Called =>
       /\ Count(t, Ctors2D \cup CtorsLegacy) = 1
       /\ Count(t, {"hardware_supports_npot_sizes"}) = 1
       /\ capAt < ctorAt
       /\ \A i \in 1..Len(t) : t[i] \in CapabilityQueries => capAt < i /\ i < ctorAt
       /\ t[ctorAt] = last.ctor
       /\ last.npot => /\ last.ctor \in Ctors2D
                       /\ last.ctx = cogl_context
                       /\ last.ctx # NULL
       /\ ~last.npot => /\ last.ctor \in CtorsLegacy
                        /\ last.ctorFlags = last.flags
                        /\ last.ctorInternal = last.internal_format
       /\ Sized =>
            /\ Count(t, {"clamp_sizes"}) = 1
            /\ clampAt = 1
            /\ clampAt < capAt
            /\ \A i \in 1..Len(t) : t[i] \in ScreenQueries => i < capAt
            /\ last.dims = <<Min(last.req[1], 2 * screen_width),
                             Min(last.req[2], 2 * screen_height)>>
       /\ last.kind = "file" =>
            /\ Count(t, {"clamp_sizes"} \cup ScreenQueries) = 0
            /\ capAt = 1

\* a first from-data call: screen query, then capability query, then the
\* legacy constructor with clamped dimensions
C5_Witness ==
  /\ last.kind = "data"
  /\ Count(last.trace, ScreenQueries) = 3
  /\ Count(last.trace, CapabilityQueries) = 3
  /\ last.ctor = "cogl_texture_new_from_data"
  /\ last.dims # last.req

\* C9 as stated: once the first screen query reported 0 x 0, the cache stays
\* 0 x 0 and every clamp of a non-negative request yields (0, 0).
C9_Original ==
  (Len(screenQueryLog) >= 1 /\ screenQueryLog[1] = <<0, 0>>) =>
    /\ <<screen_width, screen_height>> = <<0, 0>>
    /\ (Sized /\ last.req[1] >= 0 /\ last.req[2] >= 0) => last.dims = <<0, 0>>

\* C9 amended: while every screen query so far reported 0 x 0, the cache is
\* 0 x 0 and a clamp of a non-negative request yields (0, 0); but the call
\* made with a 0 cached width asks the screen again, and once it reports a
\* non-zero size that size is cached and clamped against.
C9_DegenerateUntilScreen ==
  /\ (/\ Len(screenQueryLog) >= 1
      /\ \A i \in 1..Len(screenQueryLog) : screenQueryLog[i] = <<0, 0>>) =>
       /\ <<screen_width, screen_height>> = <<0, 0>>
       /\ (Sized /\ last.req[1] >= 0 /\ last.req[2] >= 0) =>
            last.dims = <<0, 0>>
  /\ (Sized /\ Count(last.trace, ScreenQueries) > 0 /\ last.screen # <<0, 0>>) =>
       /\ <<screen_width, screen_height>> = last.screen
       /\ last.dims = <<Min(last.req[1], 2 * last.screen[1]),
                        Min(last.req[2], 2 * last.screen[2])>>

\* the first query reported 0 x 0, a later call asked again, got a real size
\* and produced a non-degenerate clamp
C9_Witness ==
  /\ Sized
  /\ Len(screenQueryLog) = 2
  /\ screenQueryLog[1] = <<0, 0>>
  /\ screenQueryLog[2] # <<0, 0>>
  /\ Count(last.trace, ScreenQueries) > 0
  /\ last.dims # <<0, 0>>
  /\ last.req[1] >= 0
LogEvents == {"meta_verbose", "cogl_error_free"}

\* a step that is a wrapper call whose constructor failed
FailedCall == last' # last /\ last'.ctorRet = NULL

\* what every failing call does, whatever the caches were: one constructor
\* call, nothing after it but the log-and-free of the error object (once
\* each, when there is one), and the constructor's handle returned
FailureHandling ==
  LET t == last'.trace
      ctorAt == Pos(t, Ctors2D \cup CtorsLegacy)
  IN /\ Count(t, Ctors2D \cup CtorsLegacy) = 1
     /\ \A i \in 1..Len(t) : i > ctorAt => t[i] \in LogEvents
     /\ Count(t, {"meta_verbose"}) = (IF last'.error THEN 1 ELSE 0)
     /\ Count(t, {"cogl_error_free"}) = (IF last'.error THEN 1 ELSE 0)
     /\ last'.ret = last'.ctorRet

\* C6 as stated: a failing wrapper call calls no second constructor, logs and
\* frees the error object exactly once, returns the constructor's handle and
\* leaves the capability and screen-size caches unchanged.
C6_Original ==
  [][FailedCall => (FailureHandling /\ UNCHANGED <<capVars, sizeVars>>)]_vars

\* C6 amended: as stated, except that the caches are left as the clamp and
\* capability steps before the constructor leave them on any call: populated
\* caches are unchanged, and a failing call that is the first to query
\* populates them with the answers of that moment.
C6_FailureLeavesPopulatedCaches ==
  [][FailedCall =>
       /\ FailureHandling
       /\ cogl_context # NULL => UNCHANGED capVars
       /\ cogl_context = NULL =>
            cogl_context' # NULL /\ supports_npot' = gpu_npot
       /\ (screen_width # 0 \/ last'.kind = "file") => UNCHANGED sizeVars
       /\ (screen_width = 0 /\ last'.kind # "file") =>
            <<screen_width', screen_height'>> = display]_vars

\* a failing first call: it logged and freed its error and populated both caches
C6_Witness ==
  /\ Called
  /\ last.ctorRet = NULL
  /\ last.error
  /\ Count(last.trace, {"cogl_error_free"}) = 1
  /\ Count(last.trace, CapabilityQueries) = 3
  /\ Count(last.trace, ScreenQueries) = 3
  /\ screen_width # 0

\* C8 as stated: an error object is produced, logged or freed only on the
\* newer-path constructors; no legacy-path call yields one.
C8_Original ==
  Called =>
    ((last.error \/ Count(last.trace, LogEvents) > 0) => last.ctor \in Ctors2D)

ErrorCtors ==
  {"cogl_texture_2d_new_from_data", "cogl_texture_2d_new_from_file",
   "cogl_texture_new_from_file"}

\* C8 amended: an error object is produced, logged and freed only on the 2D
\* constructors of from-data and from-file and on the legacy constructor of
\* from-file, and there on every failure; on the other constructors a
\* failure shows only as the NULL handle.
C8_ErrorTaxonomy ==
  Called =>
    /\ (last.error \/ Count(last.trace, LogEvents) > 0) => last.ctor \in ErrorCtors
    /\ (last.ctor \in ErrorCtors /\ last.ret = NULL) =>
         /\ last.error
         /\ Count(last.trace, {"meta_verbose"}) = 1
         /\ Count(last.trace, {"cogl_error_free"}) = 1
    /\ last.error => last.ret = NULL

\* the legacy file constructor failed and its error was logged and freed
C8_Witness ==
  /\ last.ctor = "cogl_texture_new_from_file"
  /\ last.error
  /\ last.ret = NULL
  /\ Count(last.trace, {"meta_verbose"}) = 1
  /\ Count(last.trace, {"cogl_error_free"}) = 1

\* C7: shared material template -- the template and its white 1 x 1 dummy
\* texture are built once, stay alive and keep their layer; every call
\* returns a new material, distinct from the template and from the earlier
\* results, whose layer 0 is the supplied texture, or the dummy when none is
\* supplied, and stays so after later calls.
C7_SharedTemplate ==
  /\ Len(templateBuilds) <= 1
  /\ (texture_material_template = COGL_INVALID_HANDLE) <=> (templateBuilds = <<>>)
  /\ (returned = <<>>) <=> (templateBuilds = <<>>)
  /\ Len(templateBuilds) = 1 =>
       LET template == templateBuilds[1].template
           dummy == templateBuilds[1].dummy
       IN /\ texture_material_template = template
          /\ objects[template].type = "material"
          /\ objects[template].refs >= 1
          /\ objects[template].layer0 = dummy
          /\ objects[dummy].type = "texture"
          /\ objects[dummy].refs >= 1
          /\ objects[dummy].pixel = <<255, 255, 255, 255>>
          /\ objects[dummy].width = 1
          /\ objects[dummy].height = 1
          /\ \A i \in 1..Len(returned) :
               /\ returned[i].ret # template
               /\ returned[i].ret \in DOMAIN objects
               /\ objects[returned[i].ret].type = "material"
               /\ objects[returned[i].ret].layer0 =
                    (IF returned[i].src # COGL_INVALID_HANDLE
                       THEN returned[i].src ELSE dummy)
  /\ \A i, j \in 1..Len(returned) :
       i # j => returned[i].ret # returned[j].ret

\* a call with a real texture, then a later call with none
C7_Witness ==
  \E i, j \in 1..Len(returned) :
    /\ i < j
    /\ returned[i].src # COGL_INVALID_HANDLE
    /\ returned[j].src = COGL_INVALID_HANDLE
    /\ objects[returned[j].ret].layer0 = templateBuilds[1].dummy

Abs(x) == IF x < 0 THEN -x ELSE x

\* C10: solid-colour pixel encoding -- the request is a 1 x 1 texture in the
\* premultiplied RGBA format whose bytes are, in the order red, green, blue,
\* alpha, each colour channel scaled by alpha / 255 and the alpha unchanged;
\* (255, 0, 0, 255) gives (255, 0, 0, 255), alpha 255 keeps the colour
\* bytes, alpha 0 zeroes them.
C10_PixelEncoding ==
  lastColor.called =>
    LET c == lastColor.rgba
        px == lastColor.pixel
    IN /\ lastColor.width = 1
       /\ lastColor.height = 1
       /\ lastColor.format = "COGL_PIXEL_FORMAT_RGBA_8888_PRE"
       /\ lastColor.rowstride = 4
       /\ Len(px) = 4
       /\ px[4] = c[4]
       /\ \A i \in 1..3 :
            /\ px[i] \in 0..MaxByte
            /\ Abs(MaxByte * px[i] - c[i] * c[4]) < MaxByte
       /\ c = <<255, 0, 0, 255>> => px = <<255, 0, 0, 255>>
       /\ c[4] = 255 => px = c
       /\ c[4] = 0 => px = <<0, 0, 0, 0>>

C10_Witness ==
  /\ lastColor.called
  /\ lastColor.rgba = <<255, 0, 0, 255>>
  /\ lastColor.pixel = <<255, 0, 0, 255>>
  /\ lastColor.ret # COGL_INVALID_HANDLE
====
